---- MODULE Spec2Model ----
(***************************************************************************)
(* update_problems.py: load problems.json, give every record lacking the   *)
(* key 'problemType' the value 'code', write the collection back with      *)
(* indent=4 and print the number of entries.                               *)
(*                                                                         *)
(* Text is modelled as sequences of one-character strings so that Python's *)
(* substring test ('problemType' in "some string") is computed, not        *)
(* tabulated.  JSON / Python values are tagged tuples:                     *)
(*   <<"map", pairs>>   dict, pairs = sequence of <<key, value>>           *)
(*   <<"list", items>>  list                                               *)
(*   <<"str", chars>>   str                                                *)
(*   <<"num", n>>       int                                                *)
(*   <<"null">>         None                                               *)
(* The content of the file is one of                                       *)
(*   <<"missing">>          no such file                                   *)
(*   <<"garbage">>          text that is not JSON                          *)
(*   <<"doc", fmt, v>>      complete JSON text of the surface value v (an  *)
(*                          object may repeat a key), laid out as fmt      *)
(*   <<"partial", v, n>>    a prefix of the indent=4 text of v holding the *)
(*                          first n top-level items and no closing bracket *)
(***************************************************************************)
EXTENDS Integers, Sequences, FiniteSets, TLC

VARIABLES resource, pc, problems, idx, nwritten, out, err, run,
          start, input, reads, writes, ndefaulted, outcomes

vars == <<resource, pc, problems, idx, nwritten, out, err, run,
          start, input, reads, writes, ndefaulted, outcomes>>

\* ---------------------------------------------------------------- bounds
MaxLen == 2
MaxRuns == 2

\* ------------------------------------------------------------------ text
PT == <<"p", "r", "o", "b", "l", "e", "m", "T", "y", "p", "e">>
CODE == <<"c", "o", "d", "e">>
QUIZ == <<"q", "u", "i", "z">>
ID == <<"i", "d">>

Str(s) == <<"str", s>>
Num(n) == <<"num", n>>
Null == <<"null">>
List(items) == <<"list", items>>
Map(pairs) == <<"map", pairs>>
None == <<"none">>

Kind(v) == v[1]
IsMap(v) == Kind(v) = "map"
IsList(v) == Kind(v) = "list"
IsStr(v) == Kind(v) = "str"

\* ------------------------------------------------------- dict primitives
HasKey(pairs, k) == \E i \in 1..Len(pairs) : pairs[i][1] = k
KeyIndex(pairs, k) == CHOOSE i \in 1..Len(pairs) : pairs[i][1] = k
GetItem(pairs, k) == pairs[KeyIndex(pairs, k)][2]
Keys(pairs) == {pairs[i][1] : i \in 1..Len(pairs)}

\* d[k] = v : an existing key keeps its position, a new key goes last
SetItem(pairs, k, v) ==
    IF HasKey(pairs, k)
    THEN [pairs EXCEPT ![KeyIndex(pairs, k)] = <<k, v>>]
    ELSE Append(pairs, <<k, v>>)

\* ----------------------------------------------------------- json.load
RECURSIVE Parse(_)
RECURSIVE ParsePairs(_)
ParsePairs(pairs) ==
    IF pairs = <<>> THEN <<>>
    ELSE LET n == Len(pairs)
         IN SetItem(ParsePairs(SubSeq(pairs, 1, n - 1)),
                    pairs[n][1], Parse(pairs[n][2]))
Parse(v) ==
    IF IsMap(v) THEN Map(ParsePairs(v[2]))
    ELSE IF IsList(v) THEN List([i \in 1..Len(v[2]) |-> Parse(v[2][i])])
    ELSE v

Parseable(content) == content[1] = "doc"

\* ----------------------------------------------------------- json.dump
\* scalars and empty containers have one rendering whatever the indent
Flat(v) == ~(IsMap(v) \/ IsList(v)) \/ v[2] = <<>>
Doc(fmt, v) == <<"doc", IF Flat(v) THEN "indent4" ELSE fmt, v>>
Reverse(s) == [i \in 1..Len(s) |-> s[Len(s) + 1 - i]]
DumpReversed(v) == Doc("indent4", IF IsList(v) THEN List(Reverse(v[2])) ELSE v)
Dump(v) == Doc("indent4", v)
NItems(v) == IF IsMap(v) \/ IsList(v) THEN Len(v[2]) ELSE 0
Partial(v, n) == <<"partial", v, n>>

\* ------------------------------------------------ iteration, membership
IsIterable(v) == Kind(v) \in {"list", "map", "str"}
PyIter(v) ==
    IF IsList(v) THEN v[2]
    ELSE IF IsMap(v) THEN [i \in 1..Len(v[2]) |-> Str(v[2][i][1])]
    ELSE IF IsStr(v) THEN [i \in 1..Len(v[2]) |-> Str(<<v[2][i]>>)]
    ELSE <<>>
PyLen(v) == Len(PyIter(v))

IsSubstring(needle, s) ==
    \E i \in 1..(Len(s) - Len(needle) + 1) :
        SubSeq(s, i, i + Len(needle) - 1) = needle

PTYPO == <<"p", "r", "o", "b", "l", "e", "m", "_", "t", "y", "p", "e">>
\* 'problem_type' in p
ContainsTypo(p) ==
    IF IsMap(p) THEN HasKey(p[2], PTYPO)
    ELSE IF IsStr(p) THEN IsSubstring(PTYPO, p[2])
    ELSE IF IsList(p) THEN \E i \in 1..Len(p[2]) : p[2][i] = Str(PTYPO)
    ELSE FALSE
Truthy(v) == ~(v = Null \/ v = Str(<<>>) \/ v = Num(0))
\* p.get('problemType') used as the test
ContainsTruthy(p) ==
    IF IsMap(p) THEN HasKey(p[2], PT) /\ Truthy(GetItem(p[2], PT))
    ELSE IF IsStr(p) THEN IsSubstring(PT, p[2])
    ELSE IF IsList(p) THEN \E i \in 1..Len(p[2]) : p[2][i] = Str(PT)
    ELSE FALSE
SupportsIn(p) == Kind(p) \in {"map", "str", "list"}
\* 'problemType' in p
Contains(p) ==
    IF IsMap(p) THEN HasKey(p[2], PT)
    ELSE IF IsStr(p) THEN IsSubstring(PT, p[2])
    ELSE IF IsList(p) THEN \E i \in 1..Len(p[2]) : p[2][i] = Str(PT)
    ELSE FALSE
SupportsSetItem(p) == IsMap(p)

\* p['problemType'] = 'code'
DefaultWrongLiteral(p) == Map(SetItem(p[2], PT, Str(<<"C", "o", "d", "e">>)))
DefaultClobber(p) == Map(<< <<PT, Str(CODE)>> >>)
Default(p) == Map(SetItem(p[2], PT, Str(CODE)))

\* a loop that stops after its first iteration
LoopDoneEarly(ps, i) == i > PyLen(ps) \/ i > 1
LoopDone(ps, i) == i > PyLen(ps)

\* ---------------------------------------------------------------- inputs
Fmts == {"indent4", "compact"}
RecordPool ==
    { <<"map", <<>>>>,
      <<"map", << <<ID, Num(1)>> >>>>,
      <<"map", << <<ID, Num(2)>>, <<PT, Str(QUIZ)>> >>>>,
      <<"map", << <<PT, Str(CODE)>> >>>>,
      <<"map", << <<PT, Str(<<>>)>>, <<ID, Num(1)>> >>>>,
      <<"map", << <<PT, Null>> >>>>,
      <<"map", << <<ID, Num(1)>>, <<ID, Num(2)>> >>>> }
OtherPool ==
    { Str(PT), Str(ID), Num(1), Null, List(<<Str(PT)>>), List(<<>>) }
ElemPool == RecordPool \cup OtherPool
TopOthers ==
    { <<"map", <<>>>>,
      <<"map", << <<PT, Num(1)>> >>>>,
      <<"map", << <<ID, Num(1)>> >>>>,
      Str(<<>>), Str(ID), Num(1), Null }
TopValues ==
    {List(s) : s \in UNION {[1..n -> ElemPool] : n \in 0..MaxLen}}
        \cup TopOthers
InitialContents ==
    {<<"missing">>, <<"garbage">>}
        \cup {Doc(f, v) : f \in Fmts, v \in TopValues}

\* ------------------------------------------------------------------ Init
Init ==
    /\ resource \in InitialContents
    /\ pc = "Idle"
    /\ problems = None
    /\ idx = 0
    /\ nwritten = 0
    /\ out = <<>>
    /\ err = "none"
    /\ run = 1
    /\ start = resource
    /\ input = None
    /\ reads = 0
    /\ writes = 0
    /\ ndefaulted = 0
    /\ outcomes = <<>>

\* ------------------------------------------------------------ load (7-8)
\* a load that falls back to an empty collection when the text is not JSON
LoadLenient ==
    /\ pc = "Idle"
    /\ resource # <<"missing">>
    /\ problems' = IF Parseable(resource) THEN Parse(resource[3])
                   ELSE List(<<>>)
    /\ input' = problems'
    /\ reads' = reads + 1
    /\ idx' = 1
    /\ pc' = "Loaded"
    /\ UNCHANGED <<resource, nwritten, out, err, run, start, writes,
                   ndefaulted, outcomes>>

\* open(file_path, 'r') succeeds and json.load returns
Load ==
    /\ pc = "Idle"
    /\ Parseable(resource)
    /\ problems' = Parse(resource[3])
    /\ input' = Parse(resource[3])
    /\ reads' = reads + 1
    /\ idx' = 1
    /\ pc' = "Loaded"
    /\ UNCHANGED <<resource, nwritten, out, err, run, start, writes,
                   ndefaulted, outcomes>>

\* open(file_path, 'r') raises: no such file, or not readable
LoadOpenFails ==
    /\ pc = "Idle"
    /\ pc' = "Error"
    /\ err' = IF resource = <<"missing">> THEN "FileNotFoundError"
              ELSE "PermissionError"
    /\ UNCHANGED <<resource, problems, idx, nwritten, out, run, start,
                   input, reads, writes, ndefaulted, outcomes>>

\* json.load raises JSONDecodeError
LoadParseFails ==
    /\ pc = "Idle"
    /\ resource # <<"missing">>
    /\ ~Parseable(resource)
    /\ reads' = reads + 1
    /\ pc' = "Error"
    /\ err' = "JSONDecodeError"
    /\ UNCHANGED <<resource, problems, idx, nwritten, out, run, start,
                   input, writes, ndefaulted, outcomes>>

\* ------------------------------------------------------ transform (10-12)
\* one iteration of the for loop that completes without raising
TransformStep ==
    /\ pc = "Loaded"
    /\ IsIterable(problems)
    /\ ~LoopDone(problems, idx)
    /\ LET p == PyIter(problems)[idx]
       IN /\ SupportsIn(p)
          /\ IF Contains(p)
             THEN UNCHANGED <<problems, ndefaulted>>
             ELSE /\ SupportsSetItem(p)
                  /\ problems' =
                        List([problems[2] EXCEPT ![idx] = Default(p)])
                  /\ ndefaulted' = ndefaulted + 1
    /\ idx' = idx + 1
    /\ UNCHANGED <<resource, pc, nwritten, out, err, run, start, input,
                   reads, writes, outcomes>>

\* TypeError: problems is not iterable, p does not support `in`, or p does
\* not support item assignment
TransformRaises ==
    /\ pc = "Loaded"
    /\ \/ ~IsIterable(problems)
       \/ /\ IsIterable(problems)
          /\ ~LoopDone(problems, idx)
          /\ LET p == PyIter(problems)[idx]
             IN \/ ~SupportsIn(p)
                \/ SupportsIn(p) /\ ~Contains(p) /\ ~SupportsSetItem(p)
    /\ pc' = "Error"
    /\ err' = "TypeError"
    /\ UNCHANGED <<resource, problems, idx, nwritten, out, run, start,
                   input, reads, writes, ndefaulted, outcomes>>

\* the for loop is exhausted
TransformEnd ==
    /\ pc = "Loaded"
    /\ IsIterable(problems)
    /\ LoopDone(problems, idx)
    /\ pc' = "Transformed"
    /\ UNCHANGED <<resource, problems, idx, nwritten, out, err, run, start,
                   input, reads, writes, ndefaulted, outcomes>>

\* -------------------------------------------------------- persist (14-15)
\* open(file_path, 'w') succeeds: the file is truncated
OpenWrite ==
    /\ pc = "Transformed"
    /\ resource' = Partial(problems, 0)
    /\ nwritten' = 0
    /\ writes' = writes + 1
    /\ pc' = "Writing"
    /\ UNCHANGED <<problems, idx, out, err, run, start, input, reads,
                   ndefaulted, outcomes>>

\* open(file_path, 'w') raises: the file is as it was
OpenWriteFails ==
    /\ pc = "Transformed"
    /\ writes' = writes + 1
    /\ pc' = "Error"
    /\ err' = "OSError"
    /\ UNCHANGED <<resource, problems, idx, nwritten, out, run, start,
                   input, reads, ndefaulted, outcomes>>

\* json.dump writes the text of the next top-level item
WriteChunk ==
    /\ pc = "Writing"
    /\ nwritten < NItems(problems)
    /\ nwritten' = nwritten + 1
    /\ resource' = Partial(problems, nwritten + 1)
    /\ UNCHANGED <<pc, problems, idx, out, err, run, start, input, reads,
                   writes, ndefaulted, outcomes>>

\* a write (or the flush on close) raises: what was written stays
WriteFails ==
    /\ pc = "Writing"
    /\ pc' = "Error"
    /\ err' = "OSError"
    /\ UNCHANGED <<resource, problems, idx, nwritten, out, run, start,
                   input, reads, writes, ndefaulted, outcomes>>

\* json.dump returns and the with block closes the file
CloseWrite ==
    /\ pc = "Writing"
    /\ nwritten = NItems(problems)
    /\ resource' = Dump(problems)
    /\ pc' = "Persisted"
    /\ UNCHANGED <<problems, idx, nwritten, out, err, run, start, input,
                   reads, writes, ndefaulted, outcomes>>

\* ------------------------------------------------------------ report (17)
\* a report of the number of records that were given the default
ReportDefaulted ==
    /\ pc = "Persisted"
    /\ out' = Append(out, ndefaulted)
    /\ pc' = "Done"
    /\ UNCHANGED <<resource, problems, idx, nwritten, err, run, start,
                   input, reads, writes, ndefaulted, outcomes>>

Report ==
    /\ pc = "Persisted"
    /\ out' = Append(out, PyLen(problems))
    /\ pc' = "Done"
    /\ UNCHANGED <<resource, problems, idx, nwritten, err, run, start,
                   input, reads, writes, ndefaulted, outcomes>>

\* ------------------------------------------------- the script is run again
Rerun ==
    /\ pc \in {"Done", "Error"}
    /\ run < MaxRuns
    /\ outcomes' = Append(outcomes, <<pc, ndefaulted>>)
    /\ run' = run + 1
    /\ pc' = "Idle"
    /\ problems' = None
    /\ input' = None
    /\ idx' = 0
    /\ nwritten' = 0
    /\ out' = <<>>
    /\ err' = "none"
    /\ start' = resource
    /\ reads' = 0
    /\ writes' = 0
    /\ ndefaulted' = 0
    /\ UNCHANGED resource

Next ==
    \/ Load
    \/ LoadOpenFails
    \/ LoadParseFails
    \/ TransformStep
    \/ TransformRaises
    \/ TransformEnd
    \/ OpenWrite
    \/ OpenWriteFails
    \/ WriteChunk
    \/ WriteFails
    \/ CloseWrite
    \/ Report
    \/ Rerun

Spec == Init /\ [][Next]_vars

\* ------------------------------------------------------------ vocabulary
SeqOfMappings(v) == IsList(v) /\ \A i \in 1..Len(v[2]) : IsMap(v[2][i])
Completed == pc \in {"Persisted", "Done"}
\* the collection read back from the file
Output == Parse(resource[3])
Lacks(p) == IsMap(p) /\ ~HasKey(p[2], PT)
Has(p) == IsMap(p) /\ HasKey(p[2], PT)
AllRecordsHavePT(v) ==
    IsList(v) => \A i \in 1..Len(v[2]) : IsMap(v[2][i]) => Has(v[2][i])
PrevDone == run >= 2 /\ outcomes[run - 1][1] = "Done"

\* C1: when the input is a sequence of mappings, every record that lacked
\* problemType has problemType = "code" at its position in the collection
\* written back, and once the transform loop has finished every record has
\* the key.
C1_DefaultCorrectness ==
    SeqOfMappings(input) =>
        /\ pc = "Transformed" =>
              \A i \in 1..Len(problems[2]) : Has(problems[2][i])
        /\ Completed =>
              /\ resource[1] = "doc"
              /\ IsList(Output)
              /\ Len(Output[2]) = Len(input[2])
              /\ \A i \in 1..Len(input[2]) :
                    /\ Has(Output[2][i])
                    /\ Lacks(input[2][i]) =>
                          GetItem(Output[2][i][2], PT) = Str(CODE)

C1_Witness ==
    /\ pc = "Done"
    /\ SeqOfMappings(input)
    /\ \E i \in 1..Len(input[2]) :
          /\ Lacks(input[2][i])
          /\ Keys(input[2][i][2]) # {}
          /\ GetItem(Output[2][i][2], PT) = Str(CODE)

\* C2: a record that already had problemType in the input keeps exactly that
\* value in the written collection, whatever the value is.
C2_NonOverride ==
    (Completed /\ IsList(input)) =>
        \A i \in 1..Len(input[2]) :
            Has(input[2][i]) =>
                /\ Has(Output[2][i])
                /\ GetItem(Output[2][i][2], PT) = GetItem(input[2][i][2], PT)

C2_Witness ==
    /\ pc = "Done"
    /\ SeqOfMappings(input)
    /\ \E i \in 1..Len(input[2]) :
          /\ Has(input[2][i])
          /\ GetItem(input[2][i][2], PT) \in {Null, Str(<<>>)}
          /\ GetItem(Output[2][i][2], PT) = GetItem(input[2][i][2], PT)

\* C3: every field of an input record other than problemType is in the
\* output record with the same value, and the output record has no field
\* the input record lacked except problemType.
C3_FieldPreservation ==
    (Completed /\ IsList(input)) =>
        \A i \in 1..Len(input[2]) :
            IsMap(input[2][i]) =>
                /\ IsMap(Output[2][i])
                /\ \A k \in Keys(input[2][i][2]) \ {PT} :
                      /\ HasKey(Output[2][i][2], k)
                      /\ GetItem(Output[2][i][2], k) = GetItem(input[2][i][2], k)
                /\ Keys(Output[2][i][2]) \subseteq Keys(input[2][i][2]) \cup {PT}

C3_Witness ==
    /\ pc = "Done"
    /\ SeqOfMappings(input)
    /\ \E i \in 1..Len(input[2]) :
          /\ Lacks(input[2][i])
          /\ HasKey(input[2][i][2], ID)
          /\ GetItem(Output[2][i][2], ID) = GetItem(input[2][i][2], ID)
          /\ Keys(Output[2][i][2]) = {ID, PT}

\* C4: a run that follows a successful run gives no record the default and,
\* when it has written, leaves the file with exactly the content the first
\* run left.
C4_Idempotence ==
    PrevDone =>
        /\ ndefaulted = 0
        /\ Completed => resource = start
        /\ input # None => problems = input

C4_Witness ==
    /\ PrevDone
    /\ outcomes[run - 1][2] > 0
    /\ pc = "Done"
    /\ SeqOfMappings(input)
    /\ resource = start

\* C5: the written collection has the length of the loaded one and holds at
\* each position the record loaded at that position, with problemType
\* appended when it was absent.
C5_CardinalityOrder ==
    (Completed /\ IsList(input)) =>
        /\ IsList(Output)
        /\ Len(Output[2]) = Len(input[2])
        /\ \A i \in 1..Len(input[2]) :
              Output[2][i] =
                  IF Lacks(input[2][i])
                  THEN Map(Append(input[2][i][2], <<PT, Str(CODE)>>))
                  ELSE input[2][i]

C5_Witness ==
    /\ pc = "Done"
    /\ SeqOfMappings(input)
    /\ Len(input[2]) >= 2
    /\ input[2][1] # input[2][2]
    /\ Lacks(input[2][2])
    /\ Len(Output[2]) = Len(input[2])

\* C6: a count is printed only once the file holds the complete rewritten
\* collection, and it is the number of top-level entries of that collection.
C6_ReportedCount ==
    out # <<>> =>
        /\ pc = "Done"
        /\ resource[1] = "doc"
        /\ resource = Dump(problems)
        /\ out = <<PyLen(Output)>>

C6_Witness ==
    /\ pc = "Done"
    /\ SeqOfMappings(input)
    /\ out = <<Len(input[2])>>
    /\ ndefaulted > 0
    /\ ndefaulted < Len(input[2])

\* C7: when the file is missing, unreadable or not JSON, the run ends in the
\* load step: nothing is loaded, the file is not written and nothing is
\* printed.
C7_LoadFailure ==
    /\ ~Parseable(start) =>
          /\ pc \in {"Idle", "Error"}
          /\ pc = "Error" => err \in {"FileNotFoundError", "PermissionError",
                                      "JSONDecodeError"}
    /\ (pc = "Error" /\ err \in {"FileNotFoundError", "PermissionError",
                                 "JSONDecodeError"}) =>
          /\ problems = None
          /\ resource = start
          /\ writes = 0
          /\ out = <<>>

C7_Witness ==
    /\ pc = "Error"
    /\ err = "JSONDecodeError"
    /\ start[1] \in {"garbage", "partial"}
    /\ resource = start

\* C8: content that is valid JSON but not a sequence of mappings never gets
\* past the transform: the file is not written and no count is printed.
C8_NonSequenceFatal ==
    (input # None /\ ~SeqOfMappings(input)) =>
        /\ pc \in {"Loaded", "Error"}
        /\ writes = 0
        /\ resource = start
        /\ out = <<>>

\* C9: a run moves Idle -> Loaded -> Persisted with one read and at most one
\* write, and enters the error state only from Idle or from the write
\* attempt, never from the transform pass.
C9_LinearPath ==
    [][/\ reads' <= 1
       /\ writes' <= 1
       /\ (pc' = "Error" /\ pc # "Error") =>
             pc \in {"Idle", "Transformed", "Writing"}]_vars

\* C10: the file is opened for writing only after the loop has finished; it
\* holds its content from the start of the run, or a prefix left by the
\* write, or the complete rewritten collection, and whatever the write put
\* there has problemType in every record.
C10_WriteAfterTransform ==
    /\ pc \in {"Idle", "Loaded", "Transformed"} => resource = start
    /\ writes = 0 => resource = start
    /\ resource # start =>
          /\ LoopDone(problems, idx)
          /\ \/ /\ resource = Partial(problems, nwritten)
                /\ pc \in {"Writing", "Error"}
             \/ /\ resource = Dump(problems)
                /\ Completed
          /\ AllRecordsHavePT(problems)
    /\ Completed => resource[1] = "doc" /\ AllRecordsHavePT(Output)

C10_Witness ==
    /\ pc = "Error"
    /\ err = "OSError"
    /\ resource[1] = "partial"
    /\ SeqOfMappings(input)
    /\ \E i \in 1..Len(input[2]) : Lacks(input[2][i])
    /\ nwritten >= 1
====
